---- MODULE Spec2Model ----
(***************************************************************************)
(* Vehicle ontology population tool (population.py) as a state machine.    *)
(*                                                                         *)
(* One run of main(): load the ontology, load data.csv, export the column  *)
(* values, build the lookup maps, create the Manufacturer and ModelYear    *)
(* individuals, populate one Vehicle individual per sampled row, save,     *)
(* run the reasoner, report.                                               *)
(*                                                                         *)
(* Text is modelled as a sequence of one-character strings, so that the    *)
(* character-level operations of the code (re.sub, str.replace, the `in`   *)
(* substring test, isalpha, zero padding) are computed, not assumed.       *)
(* A CSV cell is a tagged value: NaN, Num(n) or Txt(s).                    *)
(***************************************************************************)
EXTENDS Integers, Sequences, FiniteSets, TLC

VARIABLES
    pc,               \* position of the run in populate_ontology / main
    exit_code,        \* NotExited, ExitCode(0) (normal end) or ExitCode(1) (sys.exit(1))
    ontology_file,    \* input: vehicle_ontology.rdf, "present" or "missing"
    csv_file,         \* input: data.csv, [format, rows]
    dirs,             \* directories created by the run
    files,            \* artifact files written by the run
    saved_file,       \* content of vehicle_ontology_populated.rdf, or NoFile
    logged,           \* error lines logged by the run
    steps,            \* the pipeline steps started so far, in order
    data,             \* the DataFrame, or NoData
    fuel_type_map,    \* 'Fuel Type' text -> FuelType individual
    drive_type_map,   \* 'Drive' text -> DriveType individual
    size_class_map,   \* 'Vehicle Size Class' text -> VehicleSizeClass individual
    body_style_map,   \* 'Vehicle Size Class' text -> BodyStyle individual
    manufacturer_map, \* 'Make' text -> Manufacturer individual
    model_year_map,   \* 'Year' value -> ModelYear individual
    individuals,      \* <<class, name>> individuals created by the run
    vehicles,         \* vehicle_id -> the Vehicle individual's facts
    inferred,         \* vehicle_ids the reasoner has classified
    sample_data,      \* the rows the vehicle loop iterates, as row numbers
    pos,              \* rows of sample_data the iterator has delivered
    processed_count,
    successful_count,
    text,             \* create_valid_id harness: the input text
    valid_id,         \* create_valid_id harness: create_valid_id(text)
    valid_id2         \* create_valid_id harness: create_valid_id(valid_id)

vars == <<pc, exit_code, ontology_file, csv_file, dirs, files, saved_file,
          logged, steps, data, fuel_type_map, drive_type_map, size_class_map,
          body_style_map, manufacturer_map, model_year_map, individuals, vehicles, inferred, sample_data, pos,
          processed_count, successful_count, text, valid_id, valid_id2>>

----------------------------------------------------------------------------
(* Bounds of the model *)

\* Largest number of rows of data.csv in the runs that follow the control
\* flow (row family FlowRows).
MaxRows == 3

\* Largest number of rows of data.csv in the runs that follow the mapping
\* of one group of columns (the other row families).
MaxMappedRows == 2

\* Longest input text of the create_valid_id harness.
MaxLen == 3

\* The sample limit of the vehicle loop. The program's value is 1000
\* (population.py line 30); the model runs the same code with the limit
\* scaled down so that files both below and above the limit are explored.
MAX_VEHICLES == 2

----------------------------------------------------------------------------
(* Program constants *)

PREMIUM_THRESHOLD == -10000

STANDARD_THRESHOLD == -1000

ONTOLOGY_FILENAME == "vehicle_ontology.rdf"

OUTPUT_FILENAME == "vehicle_ontology_populated.rdf"

DATA_FILENAME == "data.csv"

ARTIFACTS_DIR == "artifacts"

----------------------------------------------------------------------------
(* Values *)

\* The exit status of the process: none while it runs, then <<code>>
NotExited == <<>>

ExitCode(n) == <<n>>

NoData == [t |-> "none"]

NoFile == [t |-> "none"]

None == [t |-> "none"]

NaN == [t |-> "nan"]

Num(n) == [t |-> "num", v |-> n]

Txt(s) == [t |-> "str", v |-> s]

\* pd.isna on a cell
isna(cell) == cell.t = "nan"

Min(a, b) == IF a < b THEN a ELSE b

----------------------------------------------------------------------------
(* Characters and text *)

AsciiLower == {"a","b","c","d","e","f","g","h","i","j","k","l","m",
               "n","o","p","q","r","s","t","u","v","w","x","y","z"}

AsciiUpper == {"A","B","C","D","E","F","G","H","I","J","K","L","M",
               "N","O","P","Q","R","S","T","U","V","W","X","Y","Z"}

DigitChars == <<"0","1","2","3","4","5","6","7","8","9">>

Digits == {DigitChars[i] : i \in 1..10}

\* Letters outside ASCII that occur in the model's texts: str.isalpha is
\* true of them, the class [a-zA-Z0-9] does not contain them.
UnicodeLetters == {"é"}

\* What the pattern [^a-zA-Z0-9] does NOT match.
IsAsciiAlnum(c) == c \in AsciiLower \cup AsciiUpper \cup Digits

\* str.isalpha on one character
isalpha(c) == c \in AsciiLower \cup AsciiUpper \cup UnicodeLetters

\* re.sub(r"[^a-zA-Z0-9]", "_", s)
SubNonAlnum(s) == [i \in 1..Len(s) |-> IF IsAsciiAlnum(s[i]) THEN s[i] ELSE "_"]

\* s.replace(old, new) for a one-character old and new
ReplaceChar(s, old, new) == [i \in 1..Len(s) |-> IF s[i] = old THEN new ELSE s[i]]

\* `sub in s` for texts
Contains(s, sub) ==
    \E k \in 0..(Len(s) - Len(sub)) : SubSeq(s, k + 1, k + Len(sub)) = sub

\* str(n) for n >= 0
RECURSIVE IntToStr(_)
IntToStr(n) ==
    IF n < 10 THEN <<DigitChars[n + 1]>>
    ELSE IntToStr(n \div 10) \o <<DigitChars[(n % 10) + 1]>>

DigitValue(c) == CHOOSE d \in 0..9 : DigitChars[d + 1] = c

\* int(s) for a text of decimal digits
RECURSIVE StrToInt(_)
StrToInt(s) ==
    IF Len(s) = 1 THEN DigitValue(s[1])
    ELSE 10 * StrToInt(SubSeq(s, 1, Len(s) - 1)) + DigitValue(s[Len(s)])

\* f"{n:05d}" for n >= 0
RECURSIVE ZeroPad(_, _)
ZeroPad(s, width) == IF Len(s) >= width THEN s ELSE ZeroPad(<<"0">> \o s, width)

\* int(cell) succeeds: a number, or a text of decimal digits
CanInt(cell) ==
    \/ cell.t = "num"
    \/ cell.t = "str" /\ Len(cell.v) > 0 /\ \A i \in 1..Len(cell.v) : cell.v[i] \in Digits

\* int(cell), where CanInt(cell)
PyInt(cell) == IF cell.t = "num" THEN cell.v ELSE StrToInt(cell.v)

\* str(cell) for a non-null cell
PyStr(cell) == IF cell.t = "num" THEN IntToStr(cell.v) ELSE cell.v

----------------------------------------------------------------------------
(* Text literals of the program, as character sequences *)

S_Unknown == <<"U","n","k","n","o","w","n">>

S_V_ == <<"V","_">>

S_Year_ == <<"Y","e","a","r","_">>

S_Electricity == <<"E","l","e","c","t","r","i","c","i","t","y">>

S_CNG == <<"C","N","G">>

S_Diesel == <<"D","i","e","s","e","l">>

S_Gasoline_or_E85 == <<"G","a","s","o","l","i","n","e"," ","o","r"," ","E","8","5">>

S_E85 == <<"E","8","5">>

S_Premium == <<"P","r","e","m","i","u","m">>

S_Regular == <<"R","e","g","u","l","a","r">>

S_Midgrade == <<"M","i","d","g","r","a","d","e">>

S_Premium_Gas_or_Electricity == <<"P","r","e","m","i","u","m"," ","G","a","s"," ","o","r"," ","E","l","e","c","t","r","i","c","i","t","y">>

S_Premium_and_Electricity == <<"P","r","e","m","i","u","m"," ","a","n","d"," ","E","l","e","c","t","r","i","c","i","t","y">>

S_Regular_Gas_and_Electricity == <<"R","e","g","u","l","a","r"," ","G","a","s"," ","a","n","d"," ","E","l","e","c","t","r","i","c","i","t","y">>

S_Regular_Gas_or_Electricity == <<"R","e","g","u","l","a","r"," ","G","a","s"," ","o","r"," ","E","l","e","c","t","r","i","c","i","t","y">>

S_Sedan == <<"S","e","d","a","n">>

S_T == <<"T">>

S_S == <<"S">>

S_Turbocharger == <<"T","u","r","b","o","c","h","a","r","g","e","r">>

S_Supercharger == <<"S","u","p","e","r","c","h","a","r","g","e","r">>

S_NaturallyAspirated == <<"N","a","t","u","r","a","l","l","y","A","s","p","i","r","a","t","e","d">>

S_PremiumMarket == <<"P","r","e","m","i","u","m","M","a","r","k","e","t">>

S_StandardMarket == <<"S","t","a","n","d","a","r","d","M","a","r","k","e","t">>

S_EconomyMarket == <<"E","c","o","n","o","m","y","M","a","r","k","e","t">>

----------------------------------------------------------------------------
(* Mapping dictionaries *)

\* An entity of the loaded ontology is identified by its name:
\* getattr(onto, name) and onto.SomeClass(name) denote the same entity
\* when the names are equal.
FUEL_TYPE_MAP ==
    (S_CNG :> S_CNG) @@ (S_Diesel :> S_Diesel) @@
    (S_Electricity :> S_Electricity) @@ (S_Gasoline_or_E85 :> S_E85) @@
    (S_Premium :> S_Premium) @@ (S_Regular :> S_Regular) @@
    (S_Midgrade :> S_Midgrade) @@
    (S_Premium_Gas_or_Electricity :> S_Premium) @@
    (S_Premium_and_Electricity :> S_Premium) @@
    (S_Regular_Gas_and_Electricity :> S_Regular) @@
    (S_Regular_Gas_or_Electricity :> S_Regular)

DRIVE_TYPE_MAP ==
    (<<"F","r","o","n","t","-","W","h","e","e","l"," ","D","r","i","v","e">>
        :> <<"F","r","o","n","t","W","h","e","e","l","D","r","i","v","e">>) @@
    (<<"R","e","a","r","-","W","h","e","e","l"," ","D","r","i","v","e">>
        :> <<"R","e","a","r","W","h","e","e","l","D","r","i","v","e">>) @@
    (<<"A","l","l","-","W","h","e","e","l"," ","D","r","i","v","e">>
        :> <<"A","l","l","W","h","e","e","l","D","r","i","v","e">>) @@
    (<<"4","-","W","h","e","e","l"," ","D","r","i","v","e">>
        :> <<"F","o","u","r","W","h","e","e","l","D","r","i","v","e">>) @@
    (<<"4","-","W","h","e","e","l"," ","o","r"," ","A","l","l","-","W","h","e","e","l"," ","D","r","i","v","e">>
        :> <<"F","o","u","r","W","h","e","e","l","D","r","i","v","e">>) @@
    (<<"P","a","r","t","-","t","i","m","e"," ","4","-","W","h","e","e","l"," ","D","r","i","v","e">>
        :> <<"F","o","u","r","W","h","e","e","l","D","r","i","v","e">>) @@
    (<<"2","-","W","h","e","e","l"," ","D","r","i","v","e">>
        :> <<"F","r","o","n","t","W","h","e","e","l","D","r","i","v","e">>)

SIZE_CLASS_MAP ==
    (<<"C","o","m","p","a","c","t"," ","C","a","r","s">>
        :> <<"C","o","m","p","a","c","t","S","i","z","e">>) @@
    (<<"S","u","b","c","o","m","p","a","c","t"," ","C","a","r","s">>
        :> <<"S","u","b","c","o","m","p","a","c","t","S","i","z","e">>) @@
    (<<"M","i","d","s","i","z","e"," ","C","a","r","s">>
        :> <<"M","i","d","s","i","z","e","S","i","z","e">>) @@
    (<<"L","a","r","g","e"," ","C","a","r","s">>
        :> <<"L","a","r","g","e","S","i","z","e">>) @@
    (<<"M","i","n","i","c","o","m","p","a","c","t"," ","C","a","r","s">>
        :> <<"M","i","n","i","c","o","m","p","a","c","t","S","i","z","e">>) @@
    (<<"S","m","a","l","l"," ","P","i","c","k","u","p"," ","T","r","u","c","k","s">>
        :> <<"P","i","c","k","u","p","S","i","z","e">>) @@
    (<<"S","p","o","r","t"," ","U","t","i","l","i","t","y"," ","V","e","h","i","c","l","e"," ","-"," ","4","W","D">>
        :> <<"S","U","V","S","i","z","e">>) @@
    (<<"S","p","o","r","t"," ","U","t","i","l","i","t","y"," ","V","e","h","i","c","l","e"," ","-"," ","2","W","D">>
        :> <<"S","U","V","S","i","z","e">>) @@
    (<<"S","m","a","l","l"," ","S","p","o","r","t"," ","U","t","i","l","i","t","y"," ","V","e","h","i","c","l","e"," ","4","W","D">>
        :> <<"S","U","V","S","i","z","e">>) @@
    (<<"S","m","a","l","l"," ","S","p","o","r","t"," ","U","t","i","l","i","t","y"," ","V","e","h","i","c","l","e"," ","2","W","D">>
        :> <<"S","U","V","S","i","z","e">>) @@
    (<<"S","t","a","n","d","a","r","d"," ","S","p","o","r","t"," ","U","t","i","l","i","t","y"," ","V","e","h","i","c","l","e"," ","4","W","D">>
        :> <<"S","U","V","S","i","z","e">>) @@
    (<<"S","t","a","n","d","a","r","d"," ","S","p","o","r","t"," ","U","t","i","l","i","t","y"," ","V","e","h","i","c","l","e"," ","2","W","D">>
        :> <<"S","U","V","S","i","z","e">>) @@
    (<<"V","a","n","s",","," ","P","a","s","s","e","n","g","e","r"," ","T","y","p","e">>
        :> <<"V","a","n","S","i","z","e">>)

BODY_STYLE_MAP ==
    (<<"C","o","m","p","a","c","t"," ","C","a","r","s">>
        :> <<"S","e","d","a","n">>) @@
    (<<"S","u","b","c","o","m","p","a","c","t"," ","C","a","r","s">>
        :> <<"S","e","d","a","n">>) @@
    (<<"M","i","d","s","i","z","e"," ","C","a","r","s">>
        :> <<"S","e","d","a","n">>) @@
    (<<"L","a","r","g","e"," ","C","a","r","s">>
        :> <<"S","e","d","a","n">>) @@
    (<<"M","i","n","i","c","o","m","p","a","c","t"," ","C","a","r","s">>
        :> <<"C","o","u","p","e">>) @@
    (<<"T","w","o"," ","S","e","a","t","e","r","s">>
        :> <<"C","o","u","p","e">>) @@
    (<<"S","m","a","l","l"," ","S","t","a","t","i","o","n"," ","W","a","g","o","n","s">>
        :> <<"W","a","g","o","n">>) @@
    (<<"M","i","d","s","i","z","e"," ","S","t","a","t","i","o","n"," ","W","a","g","o","n","s">>
        :> <<"W","a","g","o","n">>) @@
    (<<"S","p","o","r","t"," ","U","t","i","l","i","t","y"," ","V","e","h","i","c","l","e"," ","-"," ","4","W","D">>
        :> <<"S","U","V">>) @@
    (<<"S","p","o","r","t"," ","U","t","i","l","i","t","y"," ","V","e","h","i","c","l","e"," ","-"," ","2","W","D">>
        :> <<"S","U","V">>) @@
    (<<"S","m","a","l","l"," ","S","p","o","r","t"," ","U","t","i","l","i","t","y"," ","V","e","h","i","c","l","e"," ","4","W","D">>
        :> <<"S","U","V">>) @@
    (<<"S","m","a","l","l"," ","S","p","o","r","t"," ","U","t","i","l","i","t","y"," ","V","e","h","i","c","l","e"," ","2","W","D">>
        :> <<"S","U","V">>) @@
    (<<"S","t","a","n","d","a","r","d"," ","S","p","o","r","t"," ","U","t","i","l","i","t","y"," ","V","e","h","i","c","l","e"," ","4","W","D">>
        :> <<"S","U","V">>) @@
    (<<"S","t","a","n","d","a","r","d"," ","S","p","o","r","t"," ","U","t","i","l","i","t","y"," ","V","e","h","i","c","l","e"," ","2","W","D">>
        :> <<"S","U","V">>) @@
    (<<"S","m","a","l","l"," ","P","i","c","k","u","p"," ","T","r","u","c","k","s">>
        :> <<"T","r","u","c","k">>) @@
    (<<"S","m","a","l","l"," ","P","i","c","k","u","p"," ","T","r","u","c","k","s"," ","2","W","D">>
        :> <<"T","r","u","c","k">>) @@
    (<<"S","m","a","l","l"," ","P","i","c","k","u","p"," ","T","r","u","c","k","s"," ","4","W","D">>
        :> <<"T","r","u","c","k">>) @@
    (<<"S","t","a","n","d","a","r","d"," ","P","i","c","k","u","p"," ","T","r","u","c","k","s">>
        :> <<"T","r","u","c","k">>) @@
    (<<"S","t","a","n","d","a","r","d"," ","P","i","c","k","u","p"," ","T","r","u","c","k","s"," ","2","W","D">>
        :> <<"T","r","u","c","k">>) @@
    (<<"S","t","a","n","d","a","r","d"," ","P","i","c","k","u","p"," ","T","r","u","c","k","s"," ","4","W","D">>
        :> <<"T","r","u","c","k">>) @@
    (<<"S","t","a","n","d","a","r","d"," ","P","i","c","k","u","p"," ","T","r","u","c","k","s","/","2","w","d">>
        :> <<"T","r","u","c","k">>) @@
    (<<"V","a","n","s">>
        :> <<"V","a","n">>) @@
    (<<"V","a","n","s"," ","P","a","s","s","e","n","g","e","r">>
        :> <<"V","a","n">>) @@
    (<<"V","a","n","s",","," ","C","a","r","g","o"," ","T","y","p","e">>
        :> <<"V","a","n">>) @@
    (<<"V","a","n","s",","," ","P","a","s","s","e","n","g","e","r"," ","T","y","p","e">>
        :> <<"V","a","n">>) @@
    (<<"M","i","n","i","v","a","n"," ","-"," ","2","W","D">>
        :> <<"V","a","n">>) @@
    (<<"M","i","n","i","v","a","n"," ","-"," ","4","W","D">>
        :> <<"V","a","n">>)

BOOST_SYSTEM_MAP == (S_T :> S_Turbocharger) @@ (S_S :> S_Supercharger)

ELECTRIC_FUEL_TYPES ==
    {S_Electricity, S_Premium_Gas_or_Electricity, S_Premium_and_Electricity,
     S_Regular_Gas_and_Electricity, S_Regular_Gas_or_Electricity}

----------------------------------------------------------------------------
(* Helper functions of the program *)

\* ensure_dir: create the directory if it does not exist
ensure_dir(existing, directory) == existing \cup {directory}

\* create_valid_id that tests the first character of the input, before the
\* substitution, for being a letter.
create_valid_id_tests_input(t) ==
    IF Len(t) = 0 THEN S_Unknown
    ELSE LET sub == SubNonAlnum(t)
         IN  IF ~isalpha(t[1]) THEN S_V_ \o sub ELSE sub

\* create_valid_id; its argument is a text (possibly empty)
create_valid_id(t) ==
    IF Len(t) = 0 THEN S_Unknown
    ELSE LET sub == SubNonAlnum(t)
         IN  IF ~isalpha(sub[1]) THEN S_V_ \o sub ELSE sub

\* safe_numeric_conversion: a number, or None
safe_numeric_conversion(value) ==
    IF value.t = "none" \/ isna(value) THEN None
    ELSE IF CanInt(value) THEN Num(PyInt(value))
    ELSE None

\* `savings < threshold` raises TypeError for a text
CanCompare(savings) == savings.t = "num"

\* get_market_segment with the thresholds compared by <=.
get_market_segment_inclusive(savings) ==
    IF isna(savings) THEN S_StandardMarket
    ELSE IF savings.v <= PREMIUM_THRESHOLD THEN S_PremiumMarket
    ELSE IF savings.v <= STANDARD_THRESHOLD THEN S_StandardMarket
    ELSE S_EconomyMarket

\* get_market_segment, where isna(savings) or CanCompare(savings)
get_market_segment(savings) ==
    IF isna(savings) THEN S_StandardMarket
    ELSE IF savings.v < PREMIUM_THRESHOLD THEN S_PremiumMarket
    ELSE IF savings.v < STANDARD_THRESHOLD THEN S_StandardMarket
    ELSE S_EconomyMarket

----------------------------------------------------------------------------
(* The input tables *)

\* The columns of data.csv that the model follows. A column that is absent
\* from the file behaves, in every test `"X" in row and not pd.isna(row["X"])`
\* of the code, like a column whose cells are all NaN.
Columns == {"ID", "Make", "Model", "Year", "Fuel_Type", "Drive",
            "Vehicle_Size_Class", "Electric_motor", "T_Charger", "S_Charger",
            "You_Save_Spend"}

BaseRow == [c \in Columns |-> NaN]

S_Ab == <<"A","b">>

S_abc == <<"a","b","c">>

\* Rows for the control flow: well-formed rows and rows whose ID or Year
\* cell is not a number.
FlowRows ==
    { BaseRow,
      [BaseRow EXCEPT !.ID = Num(7), !.Make = Txt(S_Ab), !.Year = Num(2020)],
      [BaseRow EXCEPT !.ID = Txt(S_abc)],
      [BaseRow EXCEPT !.Year = Txt(S_abc)] }

\* Rows for the market segment: savings on both sides of each threshold,
\* missing, and not a number.
SavingsCells ==
    { NaN, Num(PREMIUM_THRESHOLD - 1), Num(PREMIUM_THRESHOLD),
      Num(STANDARD_THRESHOLD - 1), Num(STANDARD_THRESHOLD), Num(0), Txt(S_abc) }

MarketRows == { [BaseRow EXCEPT !.You_Save_Spend = s] : s \in SavingsCells }

S_Hydrogen == <<"H","y","d","r","o","g","e","n">>

S_Diesel_Electricity == <<"D","i","e","s","e","l","/","E","l","e","c","t","r","i","c","i","t","y">>

S_kW == <<"k","W">>

\* Rows for the electricity flag: <<'Fuel Type', 'Electric motor'>> with
\* no fuel, a listed plain fuel, a listed hybrid fuel, pure electricity,
\* an unlisted fuel without and with the word Electricity, with and without
\* an electric motor.
ElectricCells ==
    { <<NaN, NaN>>, <<NaN, Txt(S_kW)>>,
      <<Txt(S_Regular), NaN>>, <<Txt(S_Regular), Txt(S_kW)>>,
      <<Txt(S_Premium_Gas_or_Electricity), NaN>>,
      <<Txt(S_Hydrogen), NaN>>,
      <<Txt(S_Diesel_Electricity), NaN>> }

ElectricRows ==
    { [BaseRow EXCEPT !.Fuel_Type = c[1], !.Electric_motor = c[2]] : c \in ElectricCells }

\* Rows for the boost system: <<'T Charger', 'S Charger'>>
BoostCells ==
    { <<NaN, NaN>>, <<Txt(S_T), NaN>>, <<NaN, Txt(S_S)>>,
      <<Txt(S_T), Txt(S_S)>>, <<Txt(S_S), NaN>>, <<NaN, Txt(S_T)>> }

BoostRows ==
    { [BaseRow EXCEPT !.T_Charger = c[1], !.S_Charger = c[2]] : c \in BoostCells }

\* Rows for the classification maps:
\* <<'Fuel Type', 'Drive', 'Vehicle Size Class'>> with no value, listed
\* texts, texts listed in no dictionary or in BODY_STYLE_MAP alone, the
\* number 0 and another number.
S_Front_Wheel_Drive == <<"F","r","o","n","t","-","W","h","e","e","l"," ","D","r","i","v","e">>

S_AWD == <<"A","W","D">>

S_Minicompact_Cars == <<"M","i","n","i","c","o","m","p","a","c","t"," ","C","a","r","s">>

S_Vans_Cargo_Type == <<"V","a","n","s",","," ","C","a","r","g","o"," ","T","y","p","e">>

S_Special_Purpose_Vehicle == <<"S","p","e","c","i","a","l"," ","P","u","r","p","o","s","e"," ","V","e","h","i","c","l","e">>

ClassCells ==
    { <<NaN, NaN, NaN>>,
      <<Txt(S_Regular), Txt(S_Front_Wheel_Drive), Txt(S_Minicompact_Cars)>>,
      <<Txt(S_Hydrogen), Txt(S_AWD), Txt(S_Vans_Cargo_Type)>>,
      <<NaN, NaN, Txt(S_Special_Purpose_Vehicle)>>,
      <<Num(0), Num(0), Num(0)>>,
      <<NaN, Num(5), NaN>> }

ClassRows ==
    { [BaseRow EXCEPT !.Fuel_Type = c[1], !.Drive = c[2], !.Vehicle_Size_Class = c[3]] :
        c \in ClassCells }

\* Rows for the links to manufacturers and model years: <<'ID', 'Make',
\* 'Year'>> with and without ID, a year, the year 0, and two makes that
\* differ in one character outside [a-zA-Z0-9].
S_A_b == <<"A"," ","b">>

S_A_minus_b == <<"A","-","b">>

LinkCells ==
    { <<NaN, NaN, NaN>>,
      <<NaN, Txt(S_Ab), Num(2020)>>,
      <<NaN, Txt(S_A_b), Num(0)>>,
      <<NaN, Txt(S_A_minus_b), Num(0)>>,
      <<Num(1), Txt(S_A_b), NaN>>,
      <<Num(2), Txt(S_A_minus_b), NaN>> }

LinkRows ==
    { [BaseRow EXCEPT !.ID = c[1], !.Make = c[2], !.Year = c[3]] : c \in LinkCells }

Tables(rows, max) == UNION { [1..n -> rows] : n \in 0..max }

CsvFiles(rows, max) ==
    { [format |-> f, rows |-> r] : f \in {"default", "alternate"}, r \in Tables(rows, max) }
    \cup { [format |-> "unreadable", rows |-> <<>>] }

----------------------------------------------------------------------------
(* pandas helpers *)

Range(s) == { s[i] : i \in 1..Len(s) }

NotNa(cell) == ~isna(cell)

\* Series.unique(): the distinct values in order of first appearance
RECURSIVE Unique(_)
Unique(s) ==
    IF s = <<>> THEN <<>>
    ELSE LET front == Unique(SubSeq(s, 1, Len(s) - 1))
             last == s[Len(s)]
         IN  IF last \in Range(front) THEN front ELSE Append(front, last)

\* data[column].dropna().unique()
DropnaUnique(rows, column) ==
    Unique(SelectSeq([i \in 1..Len(rows) |-> rows[i][column]], NotNa))

\* The injective sequences of k row numbers out of 1..n: what
\* data.sample(k) can return (random rows without replacement, in random
\* order, each keeping its index label).
Samples(n, k) ==
    { s \in [1..k -> 1..n] : \A a, b \in 1..k : a # b => s[a] # s[b] }

----------------------------------------------------------------------------
(* Control flow of populate_ontology and main *)

\* Successor with the reasoner run before the save (the two blocks of
\* lines 627-642 exchanged).
SuccessorReasonFirst(p) ==
    CASE p = "load_ontology" -> "load_csv"
      [] p = "load_csv"      -> "save_values"
      [] p = "load_csv_alt"  -> "save_values"
      [] p = "save_values"   -> "build_maps"
      [] p = "build_maps"    -> "manufacturers"
      [] p = "manufacturers" -> "model_years"
      [] p = "model_years"   -> "sample"
      [] p = "sample"        -> "loop"
      [] p = "loop"          -> "reason"
      [] p = "reason"        -> "save"
      [] p = "save"          -> "stats"
      [] p = "stats"         -> "done"

\* The statement sequence of populate_ontology: the position that follows
\* each position when it ends without leaving the function.
Successor(p) ==
    CASE p = "load_ontology" -> "load_csv"
      [] p = "load_csv"      -> "save_values"
      [] p = "load_csv_alt"  -> "save_values"
      [] p = "save_values"   -> "build_maps"
      [] p = "build_maps"    -> "manufacturers"
      [] p = "manufacturers" -> "model_years"
      [] p = "model_years"   -> "sample"
      [] p = "sample"        -> "loop"
      [] p = "loop"          -> "save"
      [] p = "save"          -> "reason"
      [] p = "reason"        -> "stats"
      [] p = "stats"         -> "done"

\* The named step of the batch job that a position belongs to.
StepOf(p) ==
    CASE p = "load_ontology" -> "load ontology"
      [] p \in {"load_csv", "load_csv_alt", "save_values"} -> "load CSV"
      [] p = "build_maps" -> "build lookup maps"
      [] p \in {"manufacturers", "model_years", "sample", "loop"} -> "create individuals"
      [] p = "save" -> "save"
      [] p = "reason" -> "reason"
      [] p = "stats" -> "report"

\* steps after the statement at position p has started
Started(p) ==
    IF steps # <<>> /\ steps[Len(steps)] = StepOf(p) THEN steps
    ELSE Append(steps, StepOf(p))

\* Handler without the try block around the reasoner call.
HandlerNoTryReason(site) ==
    CASE site = "ontology"     -> "exit"
      [] site = "csv_default"  -> "continue"
      [] site = "csv_alt"      -> "exit"
      [] site = "fuel_type"    -> "continue"
      [] site = "size_class"   -> "continue"
      [] site = "drive_type"   -> "continue"
      [] site = "manufacturer" -> "continue"
      [] site = "model_year"   -> "continue"
      [] site = "vehicle"      -> "continue"
      [] site = "save"         -> "continue"
      [] site = "stats"        -> "continue"
      [] OTHER                 -> "none"

\* Handler that exits when the first read of data.csv fails, without the
\* second attempt.
HandlerNoRetry(site) ==
    CASE site = "ontology"     -> "exit"
      [] site = "csv_default"  -> "exit"
      [] site = "csv_alt"      -> "exit"
      [] site = "fuel_type"    -> "continue"
      [] site = "size_class"   -> "continue"
      [] site = "drive_type"   -> "continue"
      [] site = "manufacturer" -> "continue"
      [] site = "model_year"   -> "continue"
      [] site = "vehicle"      -> "continue"
      [] site = "save"         -> "continue"
      [] site = "reason"       -> "continue"
      [] site = "stats"        -> "continue"
      [] OTHER                 -> "none"

\* What happens to an exception raised at a site of populate_ontology:
\* "continue" where a try block's handler logs it and execution goes on,
\* "exit" where the handler logs it and calls sys.exit(1), and "none"
\* where no try block of populate_ontology encloses the site, so that the
\* exception reaches the handler of main.
Handler(site) ==
    CASE site = "ontology"     -> "exit"
      [] site = "csv_default"  -> "continue"
      [] site = "csv_alt"      -> "exit"
      [] site = "fuel_type"    -> "continue"
      [] site = "size_class"   -> "continue"
      [] site = "drive_type"   -> "continue"
      [] site = "manufacturer" -> "continue"
      [] site = "model_year"   -> "continue"
      [] site = "vehicle"      -> "continue"
      [] site = "save"         -> "continue"
      [] site = "reason"       -> "continue"
      [] site = "stats"        -> "continue"
      [] OTHER                 -> "none"

\* The line a handler logs: the site, and for the vehicle loop the row
ErrorLine(site, n) == <<"ERROR", site, n>>

CRITICAL == <<"CRITICAL ERROR", "main", 0>>

\* log(line); sys.exit(1)
Exit1(line) ==
    /\ logged' = logged \cup {line}
    /\ exit_code' = ExitCode(1)
    /\ pc' = "exited"

\* An exception raised at `site` (for row n): logged and the run goes on
\* at `goon`, or logged and the process exits, or caught by main, which
\* logs CRITICAL ERROR and exits.
RaiseAt(site, n, goon) ==
    CASE Handler(site) = "continue" ->
             /\ logged' = logged \cup {ErrorLine(site, n)}
             /\ exit_code' = exit_code
             /\ pc' = goon
      [] Handler(site) = "exit" -> Exit1(ErrorLine(site, n))
      [] OTHER -> Exit1(CRITICAL)

Raise(site, goon) == RaiseAt(site, 0, goon)

Continue(goon) ==
    /\ pc' = goon
    /\ UNCHANGED <<logged, exit_code>>

inputs == <<ontology_file, csv_file>>

harness == <<text, valid_id, valid_id2>>

maps == <<fuel_type_map, drive_type_map, size_class_map, body_style_map,
          manufacturer_map, model_year_map>>

loopvars == <<sample_data, pos, processed_count, successful_count>>

outputs == <<dirs, files, saved_file>>

ontology == <<individuals, vehicles, inferred>>


----------------------------------------------------------------------------
(* Initial state *)

InitRun(rows, max) ==
    /\ pc = "load_ontology"
    /\ exit_code = NotExited
    /\ ontology_file \in {"present", "missing"}
    /\ csv_file \in CsvFiles(rows, max)
    /\ dirs = {}
    /\ files = {}
    /\ saved_file = NoFile
    /\ logged = {}
    /\ steps = <<>>
    /\ data = NoData
    /\ fuel_type_map = << >>
    /\ drive_type_map = << >>
    /\ size_class_map = << >>
    /\ body_style_map = << >>
    /\ manufacturer_map = << >>
    /\ model_year_map = << >>
    /\ individuals = {}
    /\ vehicles = << >>
    /\ inferred = {}
    /\ sample_data = <<>>
    /\ pos = 0
    /\ processed_count = 0
    /\ successful_count = 0
    /\ text = <<>>
    /\ valid_id = None
    /\ valid_id2 = None

Init == InitRun(FlowRows, MaxRows)

----------------------------------------------------------------------------
(* Loading: lines 251-300 *)

\* lines 251-266: load the ontology, then ensure_dir(ARTIFACTS_DIR)
LoadOntology ==
    /\ pc = "load_ontology"
    /\ steps' = Started(pc)
    /\ IF ontology_file = "present"
       THEN /\ dirs' = ensure_dir(dirs, ARTIFACTS_DIR)
            /\ Continue(Successor(pc))
       ELSE /\ dirs' = dirs
            /\ Raise("ontology", Successor(pc))
    /\ UNCHANGED <<inputs, files, saved_file, data, maps, ontology, loopvars, harness>>

\* lines 268-275: pd.read_csv(DATA_FILENAME)
LoadCsv ==
    /\ pc = "load_csv"
    /\ steps' = Started(pc)
    /\ IF csv_file.format = "default"
       THEN /\ data' = csv_file.rows
            /\ Continue(Successor(pc))
       ELSE /\ data' = data
            /\ Raise("csv_default", "load_csv_alt")
    /\ UNCHANGED <<inputs, outputs, maps, ontology, loopvars, harness>>

\* lines 276-281: pd.read_csv(DATA_FILENAME, sep=";")
LoadCsvAlt ==
    /\ pc = "load_csv_alt"
    /\ steps' = Started(pc)
    /\ IF csv_file.format = "alternate"
       THEN /\ data' = csv_file.rows
            /\ Continue(Successor(pc))
       ELSE /\ data' = data
            /\ Raise("csv_alt", Successor(pc))
    /\ UNCHANGED <<inputs, outputs, maps, ontology, loopvars, harness>>

\* lines 283-300: one <column>_values.txt per column, column_statistics.csv
SaveUniqueValues ==
    /\ pc = "save_values"
    /\ steps' = Started(pc)
    /\ files' = files \cup { <<ARTIFACTS_DIR, c, "_values.txt">> : c \in Columns }
                      \cup { <<ARTIFACTS_DIR, "column_statistics.csv">> }
    /\ Continue(Successor(pc))
    /\ UNCHANGED <<inputs, dirs, saved_file, data, maps, ontology, loopvars, harness>>

----------------------------------------------------------------------------
(* Lookup maps and classification individuals: lines 302-408 *)

\* Python truth value of a non-null cell
Truthy(cell) == IF cell.t = "num" THEN cell.v # 0 ELSE Len(cell.v) > 0

\* The longest prefix of s with no element in `stop`
PrefixBefore(s, stop) ==
    LET at == { i \in 1..Len(s) : s[i] \in stop }
    IN  IF at = {} THEN s
        ELSE SubSeq(s, 1, (CHOOSE i \in at : \A j \in at : i <= j) - 1)

\* fuel_type.replace(" ", "_").replace("-", "_").replace("/", "_")
fuel_id(fuel_type) ==
    ReplaceChar(ReplaceChar(ReplaceChar(fuel_type, " ", "_"), "-", "_"), "/", "_")

\* s.replace(old, "") for a one-character old
RECURSIVE RemoveChar(_, _)
RemoveChar(s, old) ==
    IF s = <<>> THEN <<>>
    ELSE IF s[1] = old THEN RemoveChar(Tail(s), old)
    ELSE <<s[1]>> \o RemoveChar(Tail(s), old)

\* size_class.replace(" ", "_").replace("-", "_").replace(",", "").replace("/", "_")
class_id(size_class) ==
    ReplaceChar(
        RemoveChar(ReplaceChar(ReplaceChar(size_class, " ", "_"), "-", "_"), ","),
        "/", "_")

\* drive_type.replace(" ", "_").replace("-", "_").replace("/", "_")
drive_id(drive_type) ==
    ReplaceChar(ReplaceChar(ReplaceChar(drive_type, " ", "_"), "-", "_"), "/", "_")

\* str.replace exists on texts only
NoReplace(cell) == Truthy(cell) /\ cell.t # "str"

\* The values one of the loops of lines 328, 342, 356 iterates before a
\* value without str.replace ends it with an AttributeError.
Reached(values) == PrefixBefore(values, { c \in Range(values) : NoReplace(c) })

\* The values for which such a loop creates an individual: `value and not
\* pd.isna(value) and value not in map`, the map holding the listed texts.
Fresh(reached, listed) ==
    { c.v : c \in { d \in Range(reached) : Truthy(d) } } \ DOMAIN listed

\* The handlers of lines 336, 350 and 364 log one line per failed creation
\* and the loops go on.
LogErrors(lines, goon) ==
    /\ logged' = logged \cup lines
    /\ exit_code' = exit_code
    /\ pc' = goon

\* lines 302-373: the maps of the mapping dictionaries, then one new
\* FuelType, VehicleSizeClass and DriveType individual per text of the data
\* that is not listed, then the default body style of the size classes
\* that have none. The replace calls of lines 330, 344 and 358 are outside
\* the try blocks. `failing_...` are the texts for which the creation of
\* the individual raises.
BuildMaps ==
    /\ pc = "build_maps"
    /\ steps' = Started(pc)
    /\ LET fuel_values == DropnaUnique(data, "Fuel_Type")
           fuel_reached == Reached(fuel_values)
           fuel_done == Len(fuel_reached) = Len(fuel_values)
           size_values == DropnaUnique(data, "Vehicle_Size_Class")
           size_reached == IF fuel_done THEN Reached(size_values) ELSE <<>>
           size_done == fuel_done /\ Len(size_reached) = Len(size_values)
           drive_values == DropnaUnique(data, "Drive")
           drive_reached == IF size_done THEN Reached(drive_values) ELSE <<>>
           drive_done == size_done /\ Len(drive_reached) = Len(drive_values)
           fuel_fresh == Fresh(fuel_reached, FUEL_TYPE_MAP)
           size_fresh == Fresh(size_reached, SIZE_CLASS_MAP)
           drive_fresh == Fresh(drive_reached, DRIVE_TYPE_MAP)
           body_fresh == IF drive_done THEN Fresh(size_values, BODY_STYLE_MAP) ELSE {}
       IN  \E failing_fuel \in SUBSET fuel_fresh, failing_size \in SUBSET size_fresh,
              failing_drive \in SUBSET drive_fresh :
             /\ fuel_type_map' =
                    [f \in DOMAIN FUEL_TYPE_MAP \cup (fuel_fresh \ failing_fuel) |->
                        IF f \in DOMAIN FUEL_TYPE_MAP THEN FUEL_TYPE_MAP[f] ELSE fuel_id(f)]
             /\ size_class_map' =
                    [s \in DOMAIN SIZE_CLASS_MAP \cup (size_fresh \ failing_size) |->
                        IF s \in DOMAIN SIZE_CLASS_MAP THEN SIZE_CLASS_MAP[s] ELSE class_id(s)]
             /\ drive_type_map' =
                    [d \in DOMAIN DRIVE_TYPE_MAP \cup (drive_fresh \ failing_drive) |->
                        IF d \in DOMAIN DRIVE_TYPE_MAP THEN DRIVE_TYPE_MAP[d] ELSE drive_id(d)]
             /\ body_style_map' =
                    [s \in DOMAIN BODY_STYLE_MAP \cup body_fresh |->
                        IF s \in DOMAIN BODY_STYLE_MAP THEN BODY_STYLE_MAP[s] ELSE S_Sedan]
             /\ individuals' = individuals
                    \cup { <<"FuelType", fuel_id(f)>> : f \in fuel_fresh \ failing_fuel }
                    \cup { <<"VehicleSizeClass", class_id(s)>> : s \in size_fresh \ failing_size }
                    \cup { <<"DriveType", drive_id(d)>> : d \in drive_fresh \ failing_drive }
             /\ IF ~drive_done
                THEN Raise("replace", Successor(pc))
                ELSE LogErrors(
                         { ErrorLine("fuel_type", fuel_id(f)) : f \in failing_fuel }
                         \cup { ErrorLine("size_class", class_id(s)) : s \in failing_size }
                         \cup { ErrorLine("drive_type", drive_id(d)) : d \in failing_drive },
                         Successor(pc))
    /\ UNCHANGED <<inputs, outputs, data, manufacturer_map, model_year_map,
                   vehicles, inferred, loopvars, harness>>

\* re.sub raises TypeError for a value that is not a text
NoSub(cell) == Truthy(cell) /\ cell.t # "str"

\* line 382
make_id(make) == create_valid_id(make.v)

\* lines 375-392: one Manufacturer individual per 'Make' value of the data.
\* create_valid_id(make) is evaluated outside the try block. `failing` are
\* the makes for which onto.Manufacturer(make_id) raises.
CreateManufacturers ==
    /\ pc = "manufacturers"
    /\ steps' = Started(pc)
    /\ LET make_values == DropnaUnique(data, "Make")
           reached == PrefixBefore(make_values, { m \in Range(make_values) : NoSub(m) })
           makes == { m \in Range(reached) : Truthy(m) }
       IN  \E failing \in SUBSET makes :
             /\ manufacturer_map' = [m \in makes \ failing |-> make_id(m)]
             /\ individuals' = individuals \cup
                    { <<"Manufacturer", make_id(m)>> : m \in makes \ failing }
             /\ IF Len(reached) < Len(make_values)
                THEN Raise("make_id", Successor(pc))
                ELSE LogErrors({ ErrorLine("manufacturer", make_id(m)) : m \in failing },
                               Successor(pc))
    /\ UNCHANGED <<inputs, outputs, data, fuel_type_map, drive_type_map,
                   size_class_map, body_style_map, model_year_map,
                   vehicles, inferred, loopvars, harness>>

\* int(year) raises
NoInt(cell) == Truthy(cell) /\ ~CanInt(cell)

\* f"Year_{int(year)}"
year_id(year) == S_Year_ \o IntToStr(PyInt(year))

\* lines 394-408: one ModelYear individual per 'Year' value of the data.
\* int(year) is evaluated outside the try block. `failing` are the years
\* for which onto.ModelYear(year_id) raises.
CreateModelYears ==
    /\ pc = "model_years"
    /\ steps' = Started(pc)
    /\ LET year_values == DropnaUnique(data, "Year")
           reached == PrefixBefore(year_values, { y \in Range(year_values) : NoInt(y) })
           years == { y \in Range(reached) : Truthy(y) }
       IN  \E failing \in SUBSET years :
             /\ model_year_map' = [y \in years \ failing |-> year_id(y)]
             /\ individuals' = individuals \cup
                    { <<"ModelYear", year_id(y)>> : y \in years \ failing }
             /\ IF Len(reached) < Len(year_values)
                THEN Raise("year_id", Successor(pc))
                ELSE LogErrors({ ErrorLine("model_year", year_id(y)) : y \in failing },
                               Successor(pc))
    /\ UNCHANGED <<inputs, outputs, data, fuel_type_map, drive_type_map,
                   size_class_map, body_style_map, manufacturer_map,
                   vehicles, inferred, loopvars, harness>>


----------------------------------------------------------------------------
(* The vehicle loop: lines 410-625 *)

\* lines 410-422: the rows to process, and the counters
SelectSample ==
    /\ pc = "sample"
    /\ steps' = Started(pc)
    /\ LET sample_size == Min(MAX_VEHICLES, Len(data))
       IN  IF sample_size < Len(data)
           THEN sample_data' \in Samples(Len(data), sample_size)
           ELSE sample_data' = [k \in 1..Len(data) |-> k]
    /\ pos' = 0
    /\ processed_count' = 0
    /\ successful_count' = 0
    /\ Continue(Successor(pc))
    /\ UNCHANGED <<inputs, outputs, data, maps, ontology, harness>>

\* A Vehicle individual with no property asserted. `row`, `rows` and
\* `complete` are bookkeeping of the model: the row that last populated the
\* individual, the rows for which line 493 returned it, and whether the
\* last row's population reached line 618.
NewVehicle ==
    [ is_a |-> {}, row |-> 0, rows |-> {}, complete |-> FALSE,
      make |-> {}, model |-> {}, year |-> {}, savings |-> {},
      electricMotorSpec |-> {}, hasElectricity |-> {}, hasFuelType |-> {},
      hasDriveType |-> {}, hasSizeClass |-> {}, hasBodyStyle |-> {},
      hasManufacturer |-> {}, hasModelYear |-> {}, hasBoostSystem |-> {},
      hasMarketSegment |-> {} ]

\* line 477: the ID cell, or the index label of the row (0-based)
row_id(row, i) == IF ~isna(row.ID) THEN row.ID ELSE Num(i - 1)

\* lines 477-487 raise: int(row_id) or int(row["Year"]) fails
NoVehicleId(row, i) ==
    \/ ~CanInt(row_id(row, i))
    \/ ~isna(row.Year) /\ ~CanInt(row.Year)

\* lines 477-487
vehicle_id(row, i) ==
    LET id_with_zeros == ZeroPad(IntToStr(PyInt(row_id(row, i))), 5)
        make == IF ~isna(row.Make) THEN PyStr(row.Make) ELSE S_Unknown
        model == IF ~isna(row.Model) THEN PyStr(row.Model) ELSE S_Unknown
        year == IF ~isna(row.Year) THEN IntToStr(PyInt(row.Year)) ELSE <<>>
        prefix == create_valid_id(
                      ReplaceChar(make \o <<"_">> \o model \o <<"_">> \o year, " ", "_"))
    IN  prefix \o <<"_">> \o id_with_zeros

\* line 493: onto.Vehicle(vehicle_id) is the individual of that name, new
\* or existing, asserted to be a Vehicle
OntoVehicle(vid, i) ==
    LET v == IF vid \in DOMAIN vehicles THEN vehicles[vid] ELSE NewVehicle
    IN  [v EXCEPT !.is_a = @ \cup {"Vehicle"}, !.row = i, !.rows = @ \cup {i},
                  !.complete = FALSE]

\* lines 495-554: the data properties (of the columns the model follows)
DataProperties(v, row) ==
    LET value == safe_numeric_conversion(row.You_Save_Spend)
    IN  [v EXCEPT
           !.make = IF ~isna(row.Make) THEN {PyStr(row.Make)} ELSE @,
           !.model = IF ~isna(row.Model) THEN {PyStr(row.Model)} ELSE @,
           !.year = IF ~isna(row.Year) THEN {PyInt(row.Year)} ELSE @,
           !.savings = IF ~isna(row.You_Save_Spend) /\ value # None THEN {value.v} ELSE @]

\* has_electricity decided by the list ELECTRIC_FUEL_TYPES alone.
has_electricity_listed_only(row) ==
    \/ /\ ~isna(row.Fuel_Type)
       /\ PyStr(row.Fuel_Type) \in ELECTRIC_FUEL_TYPES
    \/ ~isna(row.Electric_motor)

\* lines 557-565
has_electricity(row) ==
    \/ /\ ~isna(row.Fuel_Type)
       /\ \/ PyStr(row.Fuel_Type) \in ELECTRIC_FUEL_TYPES
          \/ Contains(PyStr(row.Fuel_Type), S_Electricity)
    \/ ~isna(row.Electric_motor)

\* lines 556-568
Electricity(v, row) ==
    [v EXCEPT
       !.electricMotorSpec =
           IF ~isna(row.Electric_motor) THEN {PyStr(row.Electric_motor)} ELSE @,
       !.hasElectricity = {has_electricity(row)}]

\* `key in map` for a cell and a map keyed by texts
InTextMap(cell, map) == cell.t = "str" /\ cell.v \in DOMAIN map

\* lines 570-601
ObjectProperties(v, row) ==
    [v EXCEPT
       !.hasFuelType =
           IF ~isna(row.Fuel_Type) /\ InTextMap(row.Fuel_Type, fuel_type_map)
           THEN {fuel_type_map[row.Fuel_Type.v]} ELSE @,
       !.hasDriveType =
           IF ~isna(row.Drive) /\ InTextMap(row.Drive, drive_type_map)
           THEN {drive_type_map[row.Drive.v]} ELSE @,
       !.hasSizeClass =
           IF ~isna(row.Vehicle_Size_Class)
              /\ InTextMap(row.Vehicle_Size_Class, size_class_map)
           THEN {size_class_map[row.Vehicle_Size_Class.v]} ELSE @,
       !.hasBodyStyle =
           IF isna(row.Vehicle_Size_Class) THEN @
           ELSE IF InTextMap(row.Vehicle_Size_Class, body_style_map)
           THEN {body_style_map[row.Vehicle_Size_Class.v]}
           ELSE {S_Sedan},
       !.hasManufacturer =
           IF ~isna(row.Make) /\ row.Make \in DOMAIN manufacturer_map
           THEN {manufacturer_map[row.Make]} ELSE @,
       !.hasModelYear =
           IF ~isna(row.Year) /\ row.Year \in DOMAIN model_year_map
           THEN {model_year_map[row.Year]} ELSE @]

\* BoostSystem with the supercharger tested first.
BoostSystemSuperFirst(row) ==
    IF ~isna(row.S_Charger) /\ row.S_Charger = Txt(S_S) THEN S_Supercharger
    ELSE IF ~isna(row.T_Charger) /\ row.T_Charger = Txt(S_T) THEN S_Turbocharger
    ELSE S_NaturallyAspirated

\* lines 603-609
BoostSystem(row) ==
    IF ~isna(row.T_Charger) /\ row.T_Charger = Txt(S_T) THEN S_Turbocharger
    ELSE IF ~isna(row.S_Charger) /\ row.S_Charger = Txt(S_S) THEN S_Supercharger
    ELSE S_NaturallyAspirated

\* lines 611-616, where the comparison of get_market_segment does not raise
MarketSegment(row) ==
    IF ~isna(row.You_Save_Spend)
    THEN get_market_segment(row.You_Save_Spend)
    ELSE S_StandardMarket

\* The statements of the try block at which the library can raise in the
\* model: none, onto.Vehicle(vehicle_id), the assignment of hasElectricity.
LibraryFailures == {"none", "Vehicle", "hasElectricity"}

\* lines 489-616: the try block for one row. The facts of the individual,
\* or NoVehicle when it was not created, and whether an exception was raised.
NoVehicle == [t |-> "none"]

Populate(row, i, vid, fail) ==
    LET v0 == OntoVehicle(vid, i)
        v1 == DataProperties(v0, row)
        v2 == Electricity(v1, row)
        v3 == [ObjectProperties(v2, row) EXCEPT !.hasBoostSystem = {BoostSystem(row)}]
    IN  IF fail = "Vehicle" THEN [vehicle |-> NoVehicle, raised |-> TRUE]
        ELSE IF fail = "hasElectricity" THEN [vehicle |-> v1, raised |-> TRUE]
        ELSE IF ~isna(row.You_Save_Spend) /\ ~CanCompare(row.You_Save_Spend)
        THEN [vehicle |-> v3, raised |-> TRUE]
        ELSE [vehicle |-> [v3 EXCEPT !.hasMarketSegment = {MarketSegment(row)},
                                     !.complete = TRUE],
              raised |-> FALSE]

\* lines 473-623: one iteration of the loop
ProcessRow ==
    /\ pc = "loop"
    /\ pos < Len(sample_data)
    /\ steps' = Started(pc)
    /\ pos' = pos + 1
    /\ LET i == sample_data[pos + 1]
           row == data[i]
       IN  IF NoVehicleId(row, i)
           THEN /\ Raise("vehicle_id", pc)
                /\ UNCHANGED <<vehicles, processed_count, successful_count>>
           ELSE \E fail \in LibraryFailures :
                  LET vid == vehicle_id(row, i)
                      result == Populate(row, i, vid, fail)
                  IN  /\ vehicles' =
                             IF result.vehicle = NoVehicle THEN vehicles
                             ELSE [w \in DOMAIN vehicles \cup {vid} |->
                                      IF w = vid THEN result.vehicle ELSE vehicles[w]]
                      /\ IF result.raised
                         THEN /\ RaiseAt("vehicle", i, pc)
                              /\ IF Handler("vehicle") = "continue"
                                 THEN /\ processed_count' = processed_count + 1
                                      /\ successful_count' = successful_count
                                 ELSE UNCHANGED <<processed_count, successful_count>>
                         ELSE /\ Continue(pc)
                              /\ successful_count' = successful_count + 1
                              /\ processed_count' = processed_count + 1
    /\ UNCHANGED <<inputs, outputs, data, maps, individuals, inferred, sample_data, harness>>

\* line 625: the iterator is exhausted
FinishLoop ==
    /\ pc = "loop"
    /\ pos = Len(sample_data)
    /\ steps' = Started(pc)
    /\ Continue(Successor(pc))
    /\ UNCHANGED <<inputs, outputs, data, maps, ontology, loopvars, harness>>

----------------------------------------------------------------------------
(* Save, reason, report: lines 627-663 *)

\* What onto.save writes: the facts of the ontology at that moment
Snapshot == [individuals |-> individuals, vehicles |-> vehicles, inferred |-> inferred]

\* lines 627-632; onto.save may raise
SaveOntology ==
    /\ pc = "save"
    /\ steps' = Started(pc)
    /\ \E ok \in BOOLEAN :
         IF ok
         THEN /\ saved_file' = Snapshot
              /\ Continue(Successor(pc))
         ELSE /\ saved_file' = saved_file
              /\ Raise("save", Successor(pc))
    /\ UNCHANGED <<inputs, dirs, files, data, maps, ontology, loopvars, harness>>

\* lines 634-642; sync_reasoner_hermit may raise. The reasoner adds the
\* inferred class memberships of the Vehicle individuals to the ontology
\* in memory; which classes they are is decided by the axioms of the
\* ontology file, so the model records only which individuals it classified.
RunReasoner ==
    /\ pc = "reason"
    /\ steps' = Started(pc)
    /\ \E ok \in BOOLEAN :
         IF ok
         THEN /\ inferred' = DOMAIN vehicles
              /\ Continue(Successor(pc))
         ELSE /\ inferred' = inferred
              /\ Raise("reason", Successor(pc))
    /\ UNCHANGED <<inputs, outputs, data, maps, individuals, vehicles, loopvars, harness>>

\* lines 644-663 and the return to main; counting the instances may raise.
\* After the try block "Ontology population process completed" is logged,
\* populate_ontology returns and the process ends normally.
Statistics ==
    /\ pc = "stats"
    /\ steps' = Started(pc)
    /\ \E ok \in BOOLEAN :
         IF ok \/ Handler("stats") = "continue"
         THEN /\ logged' = IF ok THEN logged ELSE logged \cup {ErrorLine("stats", 0)}
              /\ pc' = Successor(pc)
              /\ exit_code' = IF Successor(pc) = "done" THEN ExitCode(0) ELSE exit_code
         ELSE Raise("stats", Successor(pc))
    /\ UNCHANGED <<inputs, outputs, data, maps, ontology, loopvars, harness>>

Next ==
    \/ LoadOntology
    \/ LoadCsv
    \/ LoadCsvAlt
    \/ SaveUniqueValues
    \/ BuildMaps
    \/ CreateManufacturers
    \/ CreateModelYears
    \/ SelectSample
    \/ ProcessRow
    \/ FinishLoop
    \/ SaveOntology
    \/ RunReasoner
    \/ Statistics

Spec == Init /\ [][Next]_vars

\* The same run over the input tables of the other row families.
InitMarket == InitRun(MarketRows, MaxMappedRows)

SpecMarket == InitMarket /\ [][Next]_vars

InitElectric == InitRun(ElectricRows, MaxMappedRows)

SpecElectric == InitElectric /\ [][Next]_vars

InitBoost == InitRun(BoostRows, MaxMappedRows)

SpecBoost == InitBoost /\ [][Next]_vars

InitClass == InitRun(ClassRows, MaxMappedRows)

SpecClass == InitClass /\ [][Next]_vars

InitLinks == InitRun(LinkRows, MaxMappedRows)

SpecLinks == InitLinks /\ [][Next]_vars

----------------------------------------------------------------------------
(* create_valid_id applied to arbitrary texts *)

\* One character of each kind the function distinguishes: ASCII letters,
\* a digit, the underscore, other ASCII characters, a non-ASCII letter.
IdAlphabet == {"a", "Z", "7", "_", " ", "-", "é"}

Texts == UNION { [1..n -> IdAlphabet] : n \in 0..MaxLen }

run == <<pc, exit_code, inputs, outputs, logged, steps, data, maps, ontology, loopvars>>

InitIds ==
    /\ pc = "create_valid_id"
    /\ exit_code = NotExited
    /\ ontology_file = "present"
    /\ csv_file = [format |-> "default", rows |-> <<>>]
    /\ dirs = {}
    /\ files = {}
    /\ saved_file = NoFile
    /\ logged = {}
    /\ steps = <<>>
    /\ data = NoData
    /\ fuel_type_map = << >>
    /\ drive_type_map = << >>
    /\ size_class_map = << >>
    /\ body_style_map = << >>
    /\ manufacturer_map = << >>
    /\ model_year_map = << >>
    /\ individuals = {}
    /\ vehicles = << >>
    /\ inferred = {}
    /\ sample_data = <<>>
    /\ pos = 0
    /\ processed_count = 0
    /\ successful_count = 0
    /\ text \in Texts
    /\ valid_id = None
    /\ valid_id2 = None

\* valid_id = create_valid_id(text)
CallCreateValidId ==
    /\ pc = "create_valid_id"
    /\ valid_id = None
    /\ valid_id' = Txt(create_valid_id(text))
    /\ UNCHANGED <<run, text, valid_id2>>

\* valid_id2 = create_valid_id(valid_id)
CallCreateValidIdAgain ==
    /\ pc = "create_valid_id"
    /\ valid_id # None
    /\ valid_id2 = None
    /\ valid_id2' = Txt(create_valid_id(valid_id.v))
    /\ UNCHANGED <<run, text, valid_id>>

NextIds == CallCreateValidId \/ CallCreateValidIdAgain

SpecIds == InitIds /\ [][NextIds]_vars


----------------------------------------------------------------------------
(* Properties of the run *)

PIPELINE == <<"load ontology", "load CSV", "build lookup maps",
              "create individuals", "save", "reason", "report">>

IsPrefix(s, t) == Len(s) <= Len(t) /\ SubSeq(t, 1, Len(s)) = s

\* Both input files can be loaded.
InputsLoad == ontology_file = "present" /\ csv_file.format # "unreadable"

\* The vehicle loop has been entered and is no longer running.
LoopEnded ==
    \/ pc \in {"save", "reason", "stats", "done"}
    \/ pc = "exited" /\ pos > 0

\* The rows whose population raised an exception that was caught and logged.
RowErrors == { l \in logged : l[2] = "vehicle" }

\* C1: a run is fatal (exit code 1) only when the ontology file or the data
\* file cannot be loaded: whenever both load, whatever the cells of the
\* rows, the process does not exit with code 1.
C1_FatalOnlyWhenLoadingFails == InputsLoad => exit_code # ExitCode(1)

\* C2: an exception raised while one row is populated never prevents the
\* remaining rows from being processed: 0 <= successful_count <=
\* processed_count always, and once the loop has ended processed_count is
\* the number of rows of the sample and successful_count the number of rows
\* that raised no exception.
C2_RowExceptionNeverStopsLoop ==
    /\ 0 <= successful_count
    /\ successful_count <= processed_count
    /\ LoopEnded =>
         /\ processed_count = Len(sample_data)
         /\ successful_count = Len(sample_data) - Cardinality(RowErrors)

\* C3: the steps run in the fixed order load ontology, load CSV, build
\* lookup maps, create individuals, save, reason, report, each at most once
\* and one after the other; the save precedes the reasoner, nothing is
\* asserted after the save, and the saved file holds asserted facts only,
\* every vehicle an instance of the base class Vehicle alone.
C3_FixedOrderSaveBeforeReason ==
    /\ IsPrefix(steps, PIPELINE)
    /\ pc \notin {"load_ontology", "exited", "done"} =>
         \/ steps # <<>> /\ StepOf(pc) = steps[Len(steps)]
         \/ Len(steps) < Len(PIPELINE) /\ StepOf(pc) = PIPELINE[Len(steps) + 1]
    /\ "reason" \in Range(steps) => "save" \in Range(steps)
    /\ saved_file # NoFile =>
         /\ saved_file.inferred = {}
         /\ \A vid \in DOMAIN saved_file.vehicles :
                saved_file.vehicles[vid].is_a = {"Vehicle"}
         /\ saved_file.vehicles = vehicles
         /\ saved_file.individuals = individuals

\* C3 witness: a run that populated a vehicle, saved it, reasoned over it
\* and reported.
C3_Witness ==
    /\ pc = "done"
    /\ steps = PIPELINE
    /\ saved_file # NoFile
    /\ saved_file.vehicles # << >>
    /\ inferred # {}

\* C4: a failure of a late step does not skip the steps after it: after a
\* failed save the reasoner is still invoked, after a failed reasoner the
\* statistics are still attempted, after failed statistics the run still
\* completes; each error is logged and the process never exits with code 1
\* because of it.
C4_LateFailuresDoNotSkip ==
    /\ "save" \in Range(steps) =>
         /\ exit_code # ExitCode(1)
         /\ pc \in {"save", "reason", "stats", "done"}
    /\ pc \in {"stats", "done"} => "reason" \in Range(steps)
    /\ pc = "done" => "report" \in Range(steps)
    /\ pc = "done" => exit_code = ExitCode(0)
    /\ saved_file = NoFile /\ pc \in {"reason", "stats", "done"}
         => ErrorLine("save", 0) \in logged
    /\ inferred = {} /\ vehicles # << >> /\ pc \in {"stats", "done"}
         => ErrorLine("reason", 0) \in logged

\* C4 witness: the save, the reasoner and the statistics all raised and the
\* run completed normally.
C4_Witness ==
    /\ pc = "done"
    /\ exit_code = ExitCode(0)
    /\ {ErrorLine("save", 0), ErrorLine("reason", 0), ErrorLine("stats", 0)} \subseteq logged

\* The Vehicle individuals the run has created.
CreatedVehicles == DOMAIN vehicles

\* The rows the loop has taken from the sample so far.
Delivered == [k \in 1..pos |-> sample_data[k]]

\* C5: the vehicle loop processes exactly min(MAX_VEHICLES, N) rows of an
\* N-row file, each chosen row once, so at most MAX_VEHICLES Vehicle
\* individuals are created; the Manufacturer individuals are built from
\* all N rows.
C5_LoopProcessesSampleOnce ==
    /\ Cardinality(CreatedVehicles) <= MAX_VEHICLES
    /\ \A a, b \in 1..pos : a # b => Delivered[a] # Delivered[b]
    /\ LoopEnded => processed_count = Min(MAX_VEHICLES, Len(data))
    /\ pc \in {"model_years", "sample", "loop", "save", "reason", "stats", "done"} =>
         \A m \in DOMAIN manufacturer_map : \E i \in 1..Len(data) : data[i].Make = m

\* C6: on a fatal exit caused by loading, nothing is populated or saved.
\* When the ontology cannot be loaded the run exits before the artifacts
\* directory is created, before data.csv is read and before any file is
\* written; when data.csv can be read neither with the default delimiter
\* nor with ';' the run exits without an individual, an artifact file or
\* the populated ontology; a file that the second read loads is not fatal.
C6_NothingDoneOnFatalLoad ==
    /\ ontology_file = "missing" /\ pc # "load_ontology" =>
         /\ exit_code = ExitCode(1)
         /\ dirs = {}
         /\ files = {}
         /\ data = NoData
         /\ "load CSV" \notin Range(steps)
         /\ saved_file = NoFile
         /\ individuals = {}
         /\ vehicles = << >>
    /\ ontology_file = "present" /\ csv_file.format = "unreadable" /\ exit_code = ExitCode(1) =>
         /\ {ErrorLine("csv_default", 0), ErrorLine("csv_alt", 0)} \subseteq logged
         /\ files = {}
         /\ saved_file = NoFile
         /\ individuals = {}
         /\ vehicles = << >>
    /\ ontology_file = "present" /\ csv_file.format = "alternate" =>
         /\ ErrorLine("csv_alt", 0) \notin logged
         /\ pc \notin {"load_ontology", "load_csv", "load_csv_alt", "exited"} =>
              /\ data = csv_file.rows
              /\ ErrorLine("csv_default", 0) \in logged
         /\ pc = "exited" => data = csv_file.rows

\* C6 witness: the fatal exit after both reads of data.csv failed.
C6_Witness ==
    /\ pc = "exited"
    /\ exit_code = ExitCode(1)
    /\ ontology_file = "present"
    /\ ErrorLine("csv_alt", 0) \in logged
    /\ dirs = {ARTIFACTS_DIR}


\* The row that last populated a Vehicle individual.
RowOf(v) == data[v.row]

\* The Vehicle individuals whose row was processed without an exception.
Successful == { vid \in DOMAIN vehicles : vehicles[vid].complete }

\* C7: get_market_segment puts every numeric savings value into exactly one
\* segment: PremiumMarket exactly when savings < -10000, StandardMarket
\* exactly when -10000 <= savings < -1000, EconomyMarket exactly when
\* savings >= -1000; every successfully processed vehicle has exactly one
\* hasMarketSegment, StandardMarket when the 'You Save/Spend' cell is missing.
C7_MarketSegmentByThresholds ==
    /\ \A c \in { s \in SavingsCells : s.t = "num" } :
         /\ get_market_segment(c) = S_PremiumMarket <=> c.v < -10000
         /\ get_market_segment(c) = S_StandardMarket <=> (-10000 <= c.v /\ c.v < -1000)
         /\ get_market_segment(c) = S_EconomyMarket <=> c.v >= -1000
    /\ \A vid \in Successful :
         LET v == vehicles[vid]
             cell == RowOf(v).You_Save_Spend
         IN  /\ Cardinality(v.hasMarketSegment) = 1
             /\ isna(cell) => v.hasMarketSegment = {S_StandardMarket}
             /\ ~isna(cell) =>
                  /\ cell.t = "num"
                  /\ S_PremiumMarket \in v.hasMarketSegment <=> cell.v < -10000
                  /\ S_StandardMarket \in v.hasMarketSegment <=>
                         (-10000 <= cell.v /\ cell.v < -1000)
                  /\ S_EconomyMarket \in v.hasMarketSegment <=> cell.v >= -1000

\* C7 witness: vehicles at both boundary values and one without savings
\* have been processed successfully.
C7_Witness ==
    /\ \E vid \in Successful :
         /\ RowOf(vehicles[vid]).You_Save_Spend = Num(-10000)
         /\ vehicles[vid].hasMarketSegment = {S_StandardMarket}
    /\ \E vid \in Successful :
         /\ RowOf(vehicles[vid]).You_Save_Spend = Num(-1000)
         /\ vehicles[vid].hasMarketSegment = {S_EconomyMarket}

IdChars == AsciiLower \cup AsciiUpper \cup Digits \cup {"_"}

\* C8: create_valid_id returns, for every text, a non-empty identifier of
\* the characters a-z, A-Z, 0-9 and '_' whose first character is a letter;
\* the empty text gives Unknown, a text that does not start with a letter is
\* prefixed with V_; and create_valid_id(create_valid_id(t)) =
\* create_valid_id(t).
C8_ValidIdIdempotent ==
    /\ valid_id # None =>
         LET r == valid_id.v
         IN  /\ Len(r) > 0
             /\ \A i \in 1..Len(r) : r[i] \in IdChars
             /\ r[1] \in AsciiLower \cup AsciiUpper
             /\ text = <<>> => r = S_Unknown
             /\ text # <<>> /\ ~isalpha(text[1]) =>
                  /\ SubSeq(r, 1, 2) = S_V_
                  /\ Len(r) = Len(text) + 2
    /\ valid_id2 # None => valid_id2 = valid_id

\* C8 witness: a text starting with a digit and holding a special
\* character has been converted twice.
C8_Witness ==
    /\ valid_id2 # None
    /\ Len(text) >= 2
    /\ text[1] = "7"
    /\ text[2] = "-"

\* C9: every successfully processed vehicle has hasElectricity set to one
\* boolean, true exactly when the 'Fuel Type' cell is non-null and contains
\* Electricity (which every entry of ELECTRIC_FUEL_TYPES does) or the
\* 'Electric motor' cell is non-null; 'Premium Gas or Electricity' gives
\* hasFuelType Premium together with hasElectricity true.
C9_ElectricityFlag ==
    /\ \A f \in ELECTRIC_FUEL_TYPES : Contains(f, S_Electricity)
    /\ \A vid \in Successful :
         LET v == vehicles[vid]
             fuel == RowOf(v).Fuel_Type
             motor == RowOf(v).Electric_motor
         IN  /\ v.hasElectricity \in {{TRUE}, {FALSE}}
             /\ v.hasElectricity = {TRUE} <=>
                    \/ ~isna(fuel) /\ Contains(fuel.v, S_Electricity)
                    \/ ~isna(motor)
             /\ fuel = Txt(S_Premium_Gas_or_Electricity) =>
                    /\ v.hasFuelType = {S_Premium}
                    /\ v.hasElectricity = {TRUE}

\* C9 witness: a hybrid and a plain fuel without motor have been processed
\* successfully.
C9_Witness ==
    /\ \E vid \in Successful :
         /\ RowOf(vehicles[vid]).Fuel_Type = Txt(S_Premium_Gas_or_Electricity)
         /\ vehicles[vid].hasFuelType = {S_Premium}
         /\ vehicles[vid].hasElectricity = {TRUE}
    /\ \E vid \in Successful :
         /\ RowOf(vehicles[vid]).Fuel_Type = Txt(S_Regular)
         /\ isna(RowOf(vehicles[vid]).Electric_motor)
         /\ vehicles[vid].hasElectricity = {FALSE}

\* C10: every successfully processed vehicle has exactly one
\* hasBoostSystem: Turbocharger when 'T Charger' is T (also when
\* 'S Charger' is S), otherwise Supercharger when 'S Charger' is S,
\* otherwise NaturallyAspirated.
C10_BoostSystem ==
    \A vid \in Successful :
      LET v == vehicles[vid]
          tc == RowOf(v).T_Charger
          sc == RowOf(v).S_Charger
      IN  /\ Cardinality(v.hasBoostSystem) = 1
          /\ tc = Txt(S_T) => v.hasBoostSystem = {BOOST_SYSTEM_MAP[S_T]}
          /\ tc # Txt(S_T) /\ sc = Txt(S_S) => v.hasBoostSystem = {BOOST_SYSTEM_MAP[S_S]}
          /\ tc # Txt(S_T) /\ sc # Txt(S_S) => v.hasBoostSystem = {S_NaturallyAspirated}

\* C10 witness: a vehicle with both chargers and a vehicle with the
\* supercharger only have been processed successfully.
C10_Witness ==
    /\ \E vid \in Successful :
         /\ RowOf(vehicles[vid]).T_Charger = Txt(S_T)
         /\ RowOf(vehicles[vid]).S_Charger = Txt(S_S)
         /\ vehicles[vid].hasBoostSystem = {S_Turbocharger}
    /\ \E vid \in Successful :
         /\ RowOf(vehicles[vid]).T_Charger = NaN
         /\ RowOf(vehicles[vid]).S_Charger = Txt(S_S)
         /\ vehicles[vid].hasBoostSystem = {S_Supercharger}

\* The lookup maps have been built: the run is past line 373.
MapsBuilt ==
    \/ pc \in {"manufacturers", "model_years", "sample", "loop", "save", "reason",
               "stats", "done"}
    \/ pc = "exited" /\ "create individuals" \in Range(steps)

\* The cell is a key of the map, or the creation of its individual raised.
KeyOrRaised(cell, map, site, id) ==
    \/ InTextMap(cell, map)
    \/ cell.t = "str" /\ ErrorLine(site, id) \in logged

\* The body style of a size class: its BODY_STYLE_MAP entry, else Sedan.
BodyStyleOf(cell) ==
    IF InTextMap(cell, BODY_STYLE_MAP) THEN BODY_STYLE_MAP[cell.v] ELSE S_Sedan

\* C11: once the lookup maps are built, every non-null 'Fuel Type', 'Drive'
\* and 'Vehicle Size Class' value of any row of the data is a key of
\* fuel_type_map, drive_type_map, size_class_map and body_style_map, unless
\* creating its individual raised; so every successfully processed vehicle
\* with a non-null value in one of these columns has the matching
\* hasFuelType, hasDriveType, hasSizeClass link, and with a non-null size
\* class the hasBodyStyle of BODY_STYLE_MAP, or Sedan when it is not listed.
C11_ClassificationKeysCoverData ==
    /\ MapsBuilt =>
         \A i \in 1..Len(data) :
           LET fuel == data[i].Fuel_Type
               drive == data[i].Drive
               size == data[i].Vehicle_Size_Class
           IN  /\ ~isna(fuel) =>
                    KeyOrRaised(fuel, fuel_type_map, "fuel_type", fuel_id(fuel.v))
               /\ ~isna(drive) =>
                    KeyOrRaised(drive, drive_type_map, "drive_type", drive_id(drive.v))
               /\ ~isna(size) =>
                    /\ KeyOrRaised(size, size_class_map, "size_class", class_id(size.v))
                    /\ InTextMap(size, body_style_map)
    /\ \A vid \in Successful :
         LET v == vehicles[vid]
             fuel == RowOf(v).Fuel_Type
             drive == RowOf(v).Drive
             size == RowOf(v).Vehicle_Size_Class
         IN  /\ ~isna(fuel) =>
                  \/ InTextMap(fuel, fuel_type_map)
                        /\ v.hasFuelType = {fuel_type_map[fuel.v]}
                  \/ fuel.t = "str" /\ ErrorLine("fuel_type", fuel_id(fuel.v)) \in logged
             /\ ~isna(drive) =>
                  \/ InTextMap(drive, drive_type_map)
                        /\ v.hasDriveType = {drive_type_map[drive.v]}
                  \/ drive.t = "str" /\ ErrorLine("drive_type", drive_id(drive.v)) \in logged
             /\ ~isna(size) =>
                  /\ \/ InTextMap(size, size_class_map)
                           /\ v.hasSizeClass = {size_class_map[size.v]}
                     \/ size.t = "str" /\ ErrorLine("size_class", class_id(size.v)) \in logged
                  /\ v.hasBodyStyle = {BodyStyleOf(size)}

\* C12: every successfully processed vehicle whose 'Year' cell is non-null
\* is linked by hasModelYear to the ModelYear individual named Year_<year>,
\* for every year value, 0 included, and every one whose 'Make' cell is
\* non-null is linked by hasManufacturer to the Manufacturer individual
\* created for that make; two vehicles with the same year (or make) are
\* linked to the same individual. A year or make whose individual could not
\* be created because the library raised (the error line is logged) is not
\* counted against the claim.
C12_LinkedToModelYearAndManufacturer ==
    /\ \A vid \in Successful :
         LET v == vehicles[vid]
             year == RowOf(v).Year
             make == RowOf(v).Make
         IN  /\ ~isna(year) /\ ErrorLine("model_year", year_id(year)) \notin logged =>
                  /\ v.hasModelYear = {year_id(year)}
                  /\ <<"ModelYear", year_id(year)>> \in individuals
             /\ ~isna(make) /\ ErrorLine("manufacturer", make_id(make)) \notin logged =>
                  /\ v.hasManufacturer = {make_id(make)}
                  /\ <<"Manufacturer", make_id(make)>> \in individuals
    /\ \A a, b \in Successful :
         /\ RowOf(vehicles[a]).Year = RowOf(vehicles[b]).Year =>
                vehicles[a].hasModelYear = vehicles[b].hasModelYear
         /\ RowOf(vehicles[a]).Make = RowOf(vehicles[b]).Make =>
                vehicles[a].hasManufacturer = vehicles[b].hasManufacturer

\* The data has no 'ID' column, or every row has a non-null integer ID
\* that differs from every other row's ID.
DistinctIds ==
    \/ \A i \in 1..Len(data) : isna(data[i].ID)
    \/ \A i \in 1..Len(data) :
         /\ data[i].ID.t = "num"
         /\ \A j \in 1..Len(data) : i # j => data[i].ID # data[j].ID

\* Two processed rows received different vehicle identifiers.
DistinctVehicleIds ==
    \A a, b \in 1..pos :
      a # b => vehicle_id(data[Delivered[a]], Delivered[a])
                 # vehicle_id(data[Delivered[b]], Delivered[b])

\* C13: distinct rows yield distinct individuals. When the data has no
\* 'ID' column, or every row has its own non-null integer ID, any two
\* processed rows receive different vehicle identifiers, also when
\* create_valid_id gives their prefixes the same text, so that every
\* Vehicle individual was created for exactly one row; and any two distinct
\* 'Make' values are mapped to two distinct Manufacturer individuals.
C13_DistinctRowsDistinctIndividuals ==
    /\ MapsBuilt /\ DistinctIds =>
         /\ DistinctVehicleIds
         /\ \A vid \in DOMAIN vehicles : Cardinality(vehicles[vid].rows) = 1
    /\ \A m, n \in DOMAIN manufacturer_map :
         m # n => manufacturer_map[m] # manufacturer_map[n]

====
